---- MODULE Spec2Model ----
(***************************************************************************)
(* YoRent: the monthly tax summary (tax_records) and the code that keeps   *)
(* it: the payment trigger update_tax_records_on_payment_change, the SQL   *)
(* function generate_monthly_tax_record, and the admin page                *)
(* TaxAccountability with taxService / paymentService / expenseService.    *)
(*                                                                         *)
(* Text is a sequence of one-character strings, money is in cents, a tax   *)
(* rate is in hundredths of a percent (2500 = 25.00 %).                    *)
(***************************************************************************)
EXTENDS Integers, Sequences, FiniteSets, TLC

\* ------------------------------------------------------------------ text

Digits == <<"0", "1", "2", "3", "4", "5", "6", "7", "8", "9">>

UpperLetters == <<"A", "B", "C", "D", "E", "F", "G", "H", "I", "J", "K", "L", "M",
                  "N", "O", "P", "Q", "R", "S", "T", "U", "V", "W", "X", "Y", "Z">>

LowerLetters == <<"a", "b", "c", "d", "e", "f", "g", "h", "i", "j", "k", "l", "m",
                  "n", "o", "p", "q", "r", "s", "t", "u", "v", "w", "x", "y", "z">>

\* One character of String.prototype.toLowerCase / of ILIKE's case folding.
LowerChar(c) ==
  IF \E i \in 1..Len(UpperLetters) : UpperLetters[i] = c
    THEN LowerLetters[CHOOSE i \in 1..Len(UpperLetters) : UpperLetters[i] = c]
    ELSE c

toLowerCase(s) == [i \in 1..Len(s) |-> LowerChar(s[i])]

\* s has t at position i (1-based).
HasAt(s, t, i) ==
  /\ i >= 1
  /\ i + Len(t) - 1 <= Len(s)
  /\ \A k \in 1..Len(t) : s[i + k - 1] = t[k]

\* String.prototype.includes
includes(s, t) == \E i \in 1..(Len(s) + 1) : HasAt(s, t, i)

IsDigit(c) == \E i \in 1..Len(Digits) : Digits[i] = c

DigitValue(c) == (CHOOSE i \in 1..Len(Digits) : Digits[i] = c) - 1

RECURSIVE NatToText(_)
NatToText(n) ==
  IF n < 10 THEN <<Digits[n + 1]>>
  ELSE NatToText(n \div 10) \o <<Digits[(n % 10) + 1]>>

\* integer -> text, as in  '%' || _month || '%' || _year || '%'
IntToText(n) == IF n < 0 THEN <<"-">> \o NatToText(-n) ELSE NatToText(n)

RECURSIVE DigitsToNat(_)
DigitsToNat(s) ==
  IF Len(s) = 0 THEN 0
  ELSE 10 * DigitsToNat(SubSeq(s, 1, Len(s) - 1)) + DigitValue(s[Len(s)])

\* text::INTEGER. An optional sign and at least one digit, nothing else;
\* any other text raises invalid_text_representation (ok = FALSE).
CastInteger(s) ==
  LET signed == Len(s) >= 1 /\ s[1] \in {"-", "+"}
      body   == IF signed THEN SubSeq(s, 2, Len(s)) ELSE s
  IN  IF Len(body) >= 1 /\ \A i \in 1..Len(body) : IsDigit(body[i])
        THEN [ok |-> TRUE,
              val |-> IF signed /\ s[1] = "-" THEN -DigitsToNat(body)
                      ELSE DigitsToNat(body)]
        ELSE [ok |-> FALSE, val |-> 0]

\* string_to_array(s, ' '): every single space separates, so two spaces in a
\* row give an empty element; the empty text gives the empty array.
RECURSIVE SplitFrom(_, _, _)
SplitFrom(s, i, cur) ==
  IF i > Len(s) THEN <<cur>>
  ELSE IF s[i] = " " THEN <<cur>> \o SplitFrom(s, i + 1, <<>>)
  ELSE SplitFrom(s, i + 1, Append(cur, s[i]))

string_to_array(s) == IF Len(s) = 0 THEN <<>> ELSE SplitFrom(s, 1, <<>>)

\* label ILIKE '%' || _month || '%' || _year || '%'
\* (the month text of this model holds no LIKE wildcard)
ILikeMonthYear(label, _month, _year) ==
  LET l == toLowerCase(label)
      m == toLowerCase(_month)
      y == toLowerCase(IntToText(_year))
  IN  \E i \in 1..(Len(l) + 1) :
        /\ HasAt(l, m, i)
        /\ \E j \in (i + Len(m))..(Len(l) + 1) : HasAt(l, y, j)

\* ------------------------------------------------------------ calendar

January   == <<"J", "a", "n", "u", "a", "r", "y">>
February  == <<"F", "e", "b", "r", "u", "a", "r", "y">>
March     == <<"M", "a", "r", "c", "h">>
April     == <<"A", "p", "r", "i", "l">>
May       == <<"M", "a", "y">>
June      == <<"J", "u", "n", "e">>
July      == <<"J", "u", "l", "y">>
August    == <<"A", "u", "g", "u", "s", "t">>
September == <<"S", "e", "p", "t", "e", "m", "b", "e", "r">>
October   == <<"O", "c", "t", "o", "b", "e", "r">>
November  == <<"N", "o", "v", "e", "m", "b", "e", "r">>
December  == <<"D", "e", "c", "e", "m", "b", "e", "r">>

\* The twelve names of the form's month Select, which are also the names
\* toLocaleString('en-US', { month: 'long' }) produces.
MonthNames == <<January, February, March, April, May, June, July, August,
                September, October, November, December>>

\* A DATE column / an ISO date string 'YYYY-MM-DD'; NullDate is SQL NULL.
NullDate == [y |-> 0, m |-> 0, d |-> 0]

\* ------------------------------------------------------------- database

VARIABLES
  payments,            \* public.payments: id -> row
  expenses,            \* public.expenses: id -> row
  utilities_expenses,  \* public.utilities_expenses: id -> row
  tax_records,         \* public.tax_records: id -> row
  now,                 \* NOW(): one tick per statement
  lastOp               \* what the last statement did (observation only)

dbvars == <<payments, expenses, utilities_expenses, tax_records, now>>

\* _tax_rate DECIMAL DEFAULT 25.0
DefaultTaxRate == 2500

RECURSIVE SumOver(_, _)
\* SUM(f[i]) over the rows i of S; COALESCE(.., 0) for no row.
SumOver(f, S) ==
  IF S = {} THEN 0
  ELSE LET i == CHOOSE x \in S : TRUE IN f[i] + SumOver(f, S \ {i})

\* A numeric value a / b stored in a DECIMAL(.., 2) column counted in cents:
\* rounded to the nearest cent, halves away from zero.
RoundDiv(a, b) ==
  IF a >= 0 THEN (2 * a + b) \div (2 * b) ELSE -((2 * (-a) + b) \div (2 * b))

\* The rows of tax_records that UNIQUE(month, year) compares equal to the key.
TaxRowsOf(tax, _month, _year) ==
  {i \in DOMAIN tax : tax[i].month = _month /\ tax[i].year = _year}

\* DEFAULT uuid_generate_v4(): an id no row has.
NewTaxId(tax) == Cardinality(DOMAIN tax) + 1

\* UpsertTaxRecord whose DO UPDATE leaves tax_rate as stored.
UpsertTaxRecord_KeepRate(tax, vals, t) ==
  LET hit == TaxRowsOf(tax, vals.month, vals.year)
  IN  IF hit = {}
        THEN tax @@ (NewTaxId(tax) :> [vals EXCEPT !.id = NewTaxId(tax), !.updated_at = t])
        ELSE [i \in DOMAIN tax |->
                IF i \in hit
                  THEN [vals EXCEPT !.id = i, !.updated_at = t,
                                    !.tax_rate = tax[i].tax_rate]
                  ELSE tax[i]]

\* INSERT INTO tax_records (...) VALUES (...) ON CONFLICT (month, year)
\* DO UPDATE SET <all derived fields> = EXCLUDED.<field>, updated_at = NOW()
UpsertTaxRecord(tax, vals, t) ==
  LET hit == TaxRowsOf(tax, vals.month, vals.year)
  IN  IF hit = {}
        THEN tax @@ (NewTaxId(tax) :> [vals EXCEPT !.id = NewTaxId(tax), !.updated_at = t])
        ELSE [i \in DOMAIN tax |->
                IF i \in hit
                  THEN [vals EXCEPT !.id = i, !.updated_at = t]
                  ELSE tax[i]]

\* The rows of us whose column col is not NULL: the amount columns of
\* utilities_expenses are nullable (DEFAULT 0, no NOT NULL), and SUM skips
\* the rows whose argument is NULL.
NotNull(utils, us, col) == {i \in us : col \notin utils[i].nulls}

\* public.generate_monthly_tax_record(_month, _year, _tax_rate): the new
\* content of tax_records, computed from the payments and utilities_expenses
\* stored when it runs. electricity + water + gas + maintenance + other is
\* NULL for a row with a NULL among the five columns.
generate_monthly_tax_record(_month, _year, _tax_rate, pays, utils, tax, t) ==
  LET paid   == {i \in DOMAIN pays : pays[i].status = "paid"
                                     /\ ILikeMonthYear(pays[i].month, _month, _year)}
      us     == {i \in DOMAIN utils : ILikeMonthYear(utils[i].month, _month, _year)}
      whole  == {i \in us : utils[i].nulls = {}}
      Col(c) == SumOver([i \in NotNull(utils, us, c) |-> utils[i][c]],
                        NotNull(utils, us, c))
      _total_revenue   == SumOver([i \in paid |-> pays[i].amount], paid)
      _total_utilities == SumOver([i \in whole |-> utils[i].electricity + utils[i].water
                                      + utils[i].gas + utils[i].maintenance
                                      + utils[i].other], whole)
      _electricity     == Col("electricity")
      _water           == Col("water")
      _gas             == Col("gas")
      _maintenance     == Col("maintenance")
      _other_expenses  == Col("other")
      _net_income      == _total_revenue - _total_utilities
      _tax_amount      == RoundDiv(_net_income * _tax_rate, 10000)
  IN  UpsertTaxRecord(tax,
        [id |-> 0, month |-> _month, year |-> _year,
         total_revenue |-> _total_revenue, total_utilities |-> _total_utilities,
         electricity |-> _electricity, water |-> _water, gas |-> _gas,
         maintenance |-> _maintenance, other_expenses |-> _other_expenses,
         net_income |-> _net_income, tax_rate |-> _tax_rate,
         tax_amount |-> _tax_amount, updated_at |-> t], t)

\* ShouldUpdate without the comparison with the old status on UPDATE.
ShouldUpdate_AnyPaidUpdate(TG_OP, OLDROW, NEWROW) ==
  \/ TG_OP = "INSERT" /\ NEWROW.status = "paid"
  \/ TG_OP = "UPDATE" /\ (NEWROW.status = "paid" \/ OLDROW.status = "paid")
  \/ TG_OP = "DELETE" /\ OLDROW.status = "paid"

\* The row-level decision of update_tax_records_on_payment_change (and the
\* WHEN clause of the earlier trigger definition): does this event move the
\* payment into or out of 'paid'?
ShouldUpdate(TG_OP, OLDROW, NEWROW) ==
  \/ TG_OP = "INSERT" /\ NEWROW.status = "paid"
  \/ TG_OP = "UPDATE" /\ (\/ NEWROW.status = "paid" /\ OLDROW.status # "paid"
                          \/ NEWROW.status # "paid" /\ OLDROW.status = "paid")
  \/ TG_OP = "DELETE" /\ OLDROW.status = "paid"

\* update_tax_records_on_payment_change taking the label from NEW for every
\* TG_OP (NEW is null on DELETE).
update_tax_records_on_payment_change_NewLabel(TG_OP, OLDROW, NEWROW, pays, utils, tax, t) ==
  LET _month_year == string_to_array(NEWROW.month)
      quiet == [raised |-> FALSE, invoked |-> FALSE, month |-> <<>>, year |-> 0, tax |-> tax]
  IN  IF ~ShouldUpdate(TG_OP, OLDROW, NEWROW) THEN quiet
      ELSE IF Len(_month_year) >= 2
        THEN LET _month == _month_year[1]
                 cast   == CastInteger(_month_year[2])
             IN  IF ~cast.ok
                   THEN [quiet EXCEPT !.raised = TRUE]
                   ELSE [raised |-> FALSE, invoked |-> TRUE,
                         month |-> _month, year |-> cast.val,
                         tax |-> generate_monthly_tax_record(_month, cast.val,
                                   DefaultTaxRate, pays, utils, tax, t)]
        ELSE quiet

\* public.update_tax_records_on_payment_change(), fired AFTER the row change:
\* pays is the table with the change applied. raised = the function raised an
\* exception; invoked = generate_monthly_tax_record was called.
update_tax_records_on_payment_change(TG_OP, OLDROW, NEWROW, pays, utils, tax, t) ==
  LET _month_year == string_to_array(IF TG_OP = "DELETE" THEN OLDROW.month ELSE NEWROW.month)
      quiet == [raised |-> FALSE, invoked |-> FALSE, month |-> <<>>, year |-> 0, tax |-> tax]
  IN  IF ~ShouldUpdate(TG_OP, OLDROW, NEWROW) THEN quiet
      ELSE IF Len(_month_year) >= 2
        THEN LET _month == _month_year[1]
                 cast   == CastInteger(_month_year[2])
             IN  IF ~cast.ok
                   THEN [quiet EXCEPT !.raised = TRUE]
                   ELSE [raised |-> FALSE, invoked |-> TRUE,
                         month |-> _month, year |-> cast.val,
                         tax |-> generate_monthly_tax_record(_month, cast.val,
                                   DefaultTaxRate, pays, utils, tax, t)]
        ELSE quiet

\* ----------------------------------------------------- admin page (tax)

VARIABLES
  cachedPayments,      \* TaxAccountability: useState<DbPayment[]>([])
  cachedExpenses,      \* TaxAccountability: useState<DbExpense[]>([])
  taxRecords,          \* TaxAccountability: useState<TaxRecord[]>([])
  selectedYear,        \* TaxAccountability: useState(new Date().getFullYear())
  tzWest,              \* the browser's time zone is west of UTC
  toggle               \* a payment marked paid, then not paid (observation only)

VARIABLES
  user,                \* AuthContext: useState<User | null>(null); 0 is null
  profile,             \* AuthContext: useState<Profile | null>(null)
  loading,             \* AuthContext: useState(true)
  visited,             \* the route last opened and what its guard rendered
  selected,            \* the last select issued through the API and its rows
  txns                 \* transactions on payments that have not committed yet

VARIABLES
  notifications,       \* public.notifications, in insertion order
  today,               \* the UTC date of new Date()
  checks               \* NotificationService: the check each client is running

VARIABLES
  plFns,               \* parallelLimit: promiseFns.length (0: not called)
  plLimit,             \* parallelLimit: limit
  plIndex,             \* parallelLimit: i
  plPc,                \* parallelLimit: where the function is suspended
  executing,           \* parallelLimit: executing, as indices of promiseFns
  started,             \* the supplied functions that have been called
  settled              \* the supplied functions whose promise has settled

VARIABLES
  cbState,             \* CircuitBreaker: state
  failureCount,        \* CircuitBreaker: failureCount
  lastFailureTime,     \* CircuitBreaker: lastFailureTime (0 is null)
  clock,               \* Date.now()
  calls,               \* calls of execute awaiting this.fn(...args)
  cbEvent              \* what execute did last (observation only)

VARIABLES
  store,               \* InMemoryStore: the entry of the identifier's key
  rlClock,             \* Date.now() in milliseconds
  pending,             \* calls of isAllowed between incr and their return
  attempts,            \* calls of isAllowed and advances of the clock so far
  window               \* the attempts allowed in the current window (observation only)

notifvars == <<notifications, today, checks>>

\* The database tables of the tax model and the state of the tax page.
taxvars_db == <<payments, expenses, utilities_expenses, tax_records, now, lastOp,
                cachedPayments, cachedExpenses, taxRecords, selectedYear, tzWest,
                toggle>>

\* The variables of the notification service and of the utility classes.
plvars == <<plFns, plLimit, plIndex, plPc, executing, started, settled>>

\* The variables of the utility classes.
cbvars == <<cbState, failureCount, lastFailureTime, clock, calls, cbEvent>>

rlvars == <<store, rlClock, pending, attempts, window>>

utilvars == <<plvars, cbvars, rlvars>>

svcvars == <<notifvars, utilvars>>

taxvars == <<payments, expenses, utilities_expenses, tax_records, now, lastOp,
             cachedPayments, cachedExpenses, taxRecords, selectedYear, tzWest, toggle,
             txns, svcvars>>

authvars == <<user, profile, loading, visited, selected>>

vars == <<payments, expenses, utilities_expenses, tax_records, now, lastOp,
          cachedPayments, cachedExpenses, taxRecords, selectedYear, tzWest, toggle,
          user, profile, loading, visited, selected, txns,
          notifications, today, checks,
          plFns, plLimit, plIndex, plPc, executing, started, settled,
          cbState, failureCount, lastFailureTime, clock, calls, cbEvent,
          store, rlClock, pending, attempts, window>>

\* new Date('YYYY-MM-DD') is UTC midnight of that day; toLocaleString and
\* getFullYear read it in local time, which west of UTC is still the day before.
LocalMonthYear(date, west) ==
  IF west /\ date.d = 1
    THEN IF date.m = 1 THEN [m |-> 12, y |-> date.y - 1]
         ELSE [m |-> date.m - 1, y |-> date.y]
    ELSE [m |-> date.m, y |-> date.y]

\* const monthMatches = (dateString) => { ... return m === month && y === year }
monthMatches(dateString, month, year, west) ==
  IF dateString = NullDate THEN FALSE
  ELSE LET l == LocalMonthYear(dateString, west)
       IN  MonthNames[l.m] = month /\ l.y = year

\* Number.parseFloat of the rate field, in hundredths of a percent: an optional
\* sign, digits, and up to two decimals; nan when no number starts the text.
ParseFloat(s) ==
  LET signed == Len(s) >= 1 /\ s[1] \in {"-", "+"}
      start  == IF signed THEN 2 ELSE 1
      IntEnd == CHOOSE e \in (start - 1)..Len(s) :
                  /\ \A k \in start..e : IsDigit(s[k])
                  /\ (e = Len(s) \/ ~IsDigit(s[e + 1]))
      FracEnd == IF IntEnd < Len(s) /\ s[IntEnd + 1] = "."
                   THEN CHOOSE e \in (IntEnd + 1)..Len(s) :
                          /\ \A k \in (IntEnd + 2)..e : IsDigit(s[k])
                          /\ (e = Len(s) \/ ~IsDigit(s[e + 1]))
                   ELSE IntEnd
      intPart  == SubSeq(s, start, IntEnd)
      fracPart == IF FracEnd > IntEnd THEN SubSeq(s, IntEnd + 2, FracEnd) ELSE <<>>
      frac2    == SubSeq(fracPart \o <<"0", "0">>, 1, 2)
      mag      == 100 * DigitsToNat(intPart) + DigitsToNat(frac2)
  IN  IF Len(intPart) = 0 /\ Len(fracPart) = 0
        THEN [nan |-> TRUE, val |-> 0]
        ELSE [nan |-> FALSE, val |-> IF signed /\ s[1] = "-" THEN -mag ELSE mag]

\* calculateMonthlyTaxRecord(month, year) of the page, on the payment and
\* expense lists it aggregates over; rateText is formData.tax_rate.
\* tax_amount is the unrounded product, in ten-thousandths of a cent.
calculateMonthlyTaxRecord(month, year, rateText, pays, exps, west) ==
  LET paid == {i \in DOMAIN pays :
                 /\ pays[i].status = "paid"
                 /\ IF Len(pays[i].month) > 0
                      THEN includes(toLowerCase(pays[i].month), toLowerCase(month))
                      ELSE monthMatches(IF pays[i].paid_date # NullDate
                                          THEN pays[i].paid_date
                                          ELSE pays[i].due_date, month, year, west)}
      totalRevenue == SumOver([i \in paid |-> pays[i].amount], paid)
      expensesThisMonth == {i \in DOMAIN exps :
                              monthMatches(exps[i].expense_date, month, year, west)}
      ut == {i \in expensesThisMonth : exps[i].category = "utilities"}
      ma == {i \in expensesThisMonth : exps[i].category = "maintenance"}
      ot == {i \in expensesThisMonth : exps[i].category \notin {"utilities", "maintenance"}}
      electricity   == SumOver([i \in ut |-> exps[i].amount], ut)
      maintenance   == SumOver([i \in ma |-> exps[i].amount], ma)
      water         == 0
      gas           == 0
      otherExpenses == SumOver([i \in ot |-> exps[i].amount], ot)
      total_utilities == electricity + maintenance + water + gas + otherExpenses
      net_income    == totalRevenue - total_utilities
      parsedTaxRate == ParseFloat(rateText)
      tax_rate      == IF parsedTaxRate.nan THEN 0 ELSE parsedTaxRate.val
      tax_amount    == net_income * tax_rate
  IN  [month |-> month, year |-> year,
       total_revenue |-> totalRevenue, total_utilities |-> total_utilities,
       electricity |-> electricity, water |-> water, gas |-> gas,
       maintenance |-> maintenance, other_expenses |-> otherExpenses,
       net_income |-> net_income, tax_rate |-> tax_rate, tax_amount |-> tax_amount]

\* TaxRowOfPayload storing the revenue as net_income.
TaxRowOfPayload_NetIsRevenue(payload, id, t) ==
  [id |-> id, month |-> payload.month, year |-> payload.year,
   total_revenue |-> payload.total_revenue, total_utilities |-> payload.total_utilities,
   electricity |-> payload.electricity, water |-> payload.water, gas |-> payload.gas,
   maintenance |-> payload.maintenance, other_expenses |-> payload.other_expenses,
   net_income |-> payload.total_revenue, tax_rate |-> payload.tax_rate,
   tax_amount |-> RoundDiv(payload.tax_amount, 10000), updated_at |-> t]

\* TaxRowOfPayload with a negative tax_amount clamped to zero.
TaxRowOfPayload_Clamped(payload, id, t) ==
  [id |-> id, month |-> payload.month, year |-> payload.year,
   total_revenue |-> payload.total_revenue, total_utilities |-> payload.total_utilities,
   electricity |-> payload.electricity, water |-> payload.water, gas |-> payload.gas,
   maintenance |-> payload.maintenance, other_expenses |-> payload.other_expenses,
   net_income |-> payload.net_income, tax_rate |-> payload.tax_rate,
   tax_amount |-> IF payload.tax_amount < 0 THEN 0 ELSE RoundDiv(payload.tax_amount, 10000),
   updated_at |-> t]

\* The row a payload becomes in tax_records: tax_amount rounded to the cent.
TaxRowOfPayload(payload, id, t) ==
  [id |-> id, month |-> payload.month, year |-> payload.year,
   total_revenue |-> payload.total_revenue, total_utilities |-> payload.total_utilities,
   electricity |-> payload.electricity, water |-> payload.water, gas |-> payload.gas,
   maintenance |-> payload.maintenance, other_expenses |-> payload.other_expenses,
   net_income |-> payload.net_income, tax_rate |-> payload.tax_rate,
   tax_amount |-> RoundDiv(payload.tax_amount, 10000), updated_at |-> t]

\* taxService.create on a table without UNIQUE(month, year).
taxServiceCreate_NoUnique(tax, payload, t) ==
  [ok |-> TRUE,
   tax |-> tax @@ (NewTaxId(tax) :> [id |-> NewTaxId(tax), month |-> payload.month,
             year |-> payload.year, total_revenue |-> payload.total_revenue,
             total_utilities |-> payload.total_utilities,
             electricity |-> payload.electricity, water |-> payload.water,
             gas |-> payload.gas, maintenance |-> payload.maintenance,
             other_expenses |-> payload.other_expenses,
             net_income |-> payload.net_income, tax_rate |-> payload.tax_rate,
             tax_amount |-> RoundDiv(payload.tax_amount, 10000), updated_at |-> t])]

\* taxService.create: a plain INSERT. UNIQUE(month, year) rejects it when the
\* period has a row (the error is thrown to the caller, nothing is written).
taxServiceCreate(tax, payload, t) ==
  IF TaxRowsOf(tax, payload.month, payload.year) # {}
    THEN [ok |-> FALSE, tax |-> tax]
    ELSE [ok |-> TRUE,
          tax |-> tax @@ (NewTaxId(tax) :> TaxRowOfPayload(payload, NewTaxId(tax), t))]

\* The place of a character in ORDER BY month: the month names are one capital
\* followed by small letters, so two names are always compared letter by
\* letter within one case, and the alphabet decides.
CharRank(c) ==
  LET l == LowerChar(c)
  IN  IF \E i \in 1..Len(LowerLetters) : LowerLetters[i] = l
        THEN CHOOSE i \in 1..Len(LowerLetters) : LowerLetters[i] = l
        ELSE 0

\* a < b as text.
TextLess(a, b) ==
  \E k \in 1..(Len(b)) :
    /\ k <= Len(a) + 1
    /\ \A j \in 1..(k - 1) : CharRank(a[j]) = CharRank(b[j])
    /\ (k = Len(a) + 1 \/ CharRank(a[k]) < CharRank(b[k]))

\* .order('year', { ascending: false }).order('month', { ascending: false }):
\* r comes before q.
ListedBefore(r, q) ==
  r.year > q.year \/ (r.year = q.year /\ TextLess(q.month, r.month))

RECURSIVE OrderRows(_, _)
OrderRows(tax, S) ==
  IF S = {} THEN <<>>
  ELSE LET i == CHOOSE x \in S : \A j \in S \ {x} : ~ListedBefore(tax[j], tax[x])
       IN  <<tax[i]>> \o OrderRows(tax, S \ {i})

\* taxService.list(year): every row when year is 0 or undefined, else the
\* rows of that year.
taxServiceList(tax, year) ==
  OrderRows(tax, {i \in DOMAIN tax : year = 0 \/ tax[i].year = year})

\* taxService.update: UPDATE ... WHERE id = id with the whole payload (month
\* and year included); UNIQUE(month, year) rejects it when another row has the
\* period; the set_updated_at trigger stamps the row.
taxServiceUpdate(tax, id, payload, t) ==
  IF id \notin DOMAIN tax \/ TaxRowsOf(tax, payload.month, payload.year) \ {id} # {}
    THEN [ok |-> FALSE, tax |-> tax]
    ELSE [ok |-> TRUE, tax |-> [tax EXCEPT ![id] = TaxRowOfPayload(payload, id, t)]]

\* --------------------------------------------------------------- bounds

MaxNow       == 3    \* statements in one behaviour of Spec
MaxTriggerNow == 2   \* statements in one behaviour of SpecTrigger
MaxToggleNow == 5    \* statements in one behaviour of SpecToggle
MaxCalcNow   == 3    \* statements in one behaviour of SpecCalc
MaxRlsNow    == 2    \* statements in one behaviour of SpecRls
MaxCacheNow  == 4    \* statements in one behaviour of SpecCache
MaxRateNow   == 3    \* statements in one behaviour of SpecRate
MaxNotifNow  == 2    \* payments recorded in one behaviour of SpecNotif
MaxRuns      == 2    \* runs of the hourly check per client
MaxFns       == 4    \* functions passed to parallelLimit
MaxLimit     == 2    \* limit passed to parallelLimit
MaxClock     == 6    \* the last value of Date.now()
MaxCalls     == 4    \* calls of CircuitBreaker.execute
MaxAttempts  == 4    \* calls of LoginRateLimiter.isAllowed
MaxAdvances  == 2    \* advances of the rate limiter's clock
MaxConcNow   == 3    \* statements in one behaviour of SpecConc, SpecConcForm
MaxPayments  == 2    \* rows of payments
MaxExpenses  == 1    \* rows of expenses
MaxUtilities == 1    \* rows of utilities_expenses

PaymentIds == 1..MaxPayments
ExpenseIds == 1..MaxExpenses
UtilityIds == 1..MaxUtilities

Year2024 == <<"2", "0", "2", "4">>
Year2025 == <<"2", "0", "2", "5">>

\* Free text typed into the payment form's Month field ("e.g., January 2024").
LabelJan2025     == January \o <<" ">> \o Year2025
LabelJan2024     == January \o <<" ">> \o Year2024
LabelLowerJan    == toLowerCase(January) \o <<" ">> \o Year2025
LabelYearOnly    == Year2025
LabelJanRent2025 == January \o <<" ", "r", "e", "n", "t", " ">> \o Year2025

Statuses == {"unpaid", "pending", "paid", "overdue"}

\* new Date().getFullYear() when the page is opened.
CurrentYear == 2025

Jan15 == [y |-> 2025, m |-> 1, d |-> 15]
Jan01 == [y |-> 2025, m |-> 1, d |-> 1]

PaymentRowsOf(labels, amounts, statuses) ==
  [amount : amounts, month : labels, status : statuses,
   due_date : {Jan15}, paid_date : {NullDate}, tenant_id : {2}]

\* The inputs of Spec.
PaymentRows == PaymentRowsOf({LabelJan2025, LabelJan2024}, {120000},
                             {"unpaid", "paid"})

ExpenseRows ==
  [category : {"utilities"}, amount : {30000}, expense_date : {Jan15, Jan01}]
    \cup [category : {"maintenance", "insurance"}, amount : {30000},
          expense_date : {Jan15}]

\* nulls: the amount columns that hold NULL in the row (their value is unused).
UtilityRows ==
  [month : {LabelJan2025}, electricity : {5000}, water : {2000}, gas : {1000},
   maintenance : {0}, other : {500}, nulls : {{}, {"water"}}]

\* Utility rows with every amount column filled in (the inputs of Spec).
FilledUtilityRows == {u \in UtilityRows : u.nulls = {}}

\* Expense rows of the two categories the tax form totals apart (the inputs of
\* Spec).
LedgerExpenseRows == {x \in ExpenseRows : x.category \in {"utilities", "maintenance"}}

FormMonths == {January, February}
FormYears  == {2024, 2025}
FormRates  == {<<"2", "5">>, <<"0">>}

\* The inputs of SpecTrigger.
TriggerRows ==
  PaymentRowsOf({LabelJan2025, LabelLowerJan, LabelJan2024, LabelYearOnly,
                 LabelJanRent2025}, {120000}, Statuses)

\* The inputs of SpecCalc: labels with and without a month, and rates the
\* number input accepts (it has no min, so a negative rate can be submitted).
CalcRows  == PaymentRowsOf({LabelJan2025, LabelJan2024, LabelYearOnly}, {120000},
                           {"unpaid", "paid"})
CalcRates == {<<"2", "5">>, <<"-", "5">>}

\* The inputs of SpecToggle.
ToggleRows == PaymentRowsOf({LabelJan2025}, {120000, 45050}, {"unpaid", "paid"})

\* -------------------------------------------------------------- actions

NoCalc ==
  [month |-> <<>>, year |-> 0, total_revenue |-> 0, total_utilities |-> 0,
   electricity |-> 0, water |-> 0, gas |-> 0, maintenance |-> 0,
   other_expenses |-> 0, net_income |-> 0, tax_rate |-> 0, tax_amount |-> 0]

NoOp ==
  [op |-> "none", ok |-> TRUE, invoked |-> FALSE, old_status |-> "", new_status |-> "",
   label |-> <<>>, month |-> <<>>, year |-> 0, existed |-> FALSE, calc |-> NoCalc,
   formRate |-> <<>>]

NoToggle == [phase |-> "none", id |-> 0, month |-> <<>>, year |-> 0, has |-> FALSE, pre |-> 0]

NoPayment == [amount |-> 0, month |-> <<>>, status |-> "", due_date |-> NullDate,
              paid_date |-> NullDate, tenant_id |-> 0]

Without(f, i) == [k \in DOMAIN f \ {i} |-> f[k]]

\* What a payment statement leaves in lastOp.
PaymentOp(TG_OP, OLDROW, NEWROW, r, tax) ==
  [NoOp EXCEPT !.op = TG_OP, !.ok = ~r.raised, !.invoked = r.invoked,
               !.old_status = OLDROW.status, !.new_status = NEWROW.status,
               !.label = IF TG_OP = "DELETE" THEN OLDROW.month ELSE NEWROW.month,
               !.month = r.month, !.year = r.year,
               !.existed = r.invoked /\ TaxRowsOf(tax, r.month, r.year) # {}]

\* One statement on payments with its AFTER ROW trigger, in one transaction:
\* an exception raised by the trigger function rolls the row change back.
PaymentStatement(TG_OP, OLDROW, NEWROW, pays) ==
  \E r \in {update_tax_records_on_payment_change(TG_OP, OLDROW, NEWROW, pays,
                utilities_expenses, tax_records, now + 1)} :
    /\ now' = now + 1
    /\ payments' = IF r.raised THEN payments ELSE pays
    /\ tax_records' = IF r.raised THEN tax_records ELSE r.tax
    /\ lastOp' = PaymentOp(TG_OP, OLDROW, NEWROW, r, tax_records)
    /\ UNCHANGED <<expenses, utilities_expenses, cachedPayments, cachedExpenses,
                   taxRecords, selectedYear, tzWest>>
    /\ UNCHANGED <<authvars, txns, svcvars>>

\* paymentService.create: INSERT INTO payments
PaymentInsert(row) ==
  /\ DOMAIN payments # PaymentIds
  /\ LET id == CHOOSE i \in PaymentIds \ DOMAIN payments :
                 \A j \in PaymentIds \ DOMAIN payments : i <= j
     IN  PaymentStatement("INSERT", NoPayment, row, payments @@ (id :> row))
  /\ toggle' = NoToggle

\* The period the trigger resolves a label to, for the observation of a toggle.
TogglePeriod(label) ==
  LET a == string_to_array(label)
  IN  IF Len(a) >= 2 /\ CastInteger(a[2]).ok
        THEN [ok |-> TRUE, month |-> a[1], year |-> CastInteger(a[2]).val]
        ELSE [ok |-> FALSE, month |-> <<>>, year |-> 0]

ToggleAfterUpdate(id, OLDROW, NEWROW) ==
  LET p    == TogglePeriod(NEWROW.month)
      hit  == TaxRowsOf(tax_records, p.month, p.year)
      same == NEWROW.month = OLDROW.month /\ NEWROW.amount = OLDROW.amount
  IN  IF same /\ p.ok /\ OLDROW.status # "paid" /\ NEWROW.status = "paid"
        THEN [phase |-> "paid", id |-> id, month |-> p.month, year |-> p.year,
              has |-> hit # {},
              pre |-> IF hit = {} THEN 0
                      ELSE tax_records[CHOOSE i \in hit : TRUE].total_revenue]
      ELSE IF same /\ toggle.phase = "paid" /\ toggle.id = id
              /\ OLDROW.status = "paid" /\ NEWROW.status # "paid"
        THEN [toggle EXCEPT !.phase = "reverted"]
      ELSE NoToggle

\* paymentService.update: UPDATE payments SET ... WHERE id = id
PaymentUpdate(id, row) ==
  /\ id \in DOMAIN payments
  /\ PaymentStatement("UPDATE", payments[id], row, [payments EXCEPT ![id] = row])
  /\ toggle' = IF payments' = payments /\ payments[id] # row
                 THEN NoToggle
                 ELSE ToggleAfterUpdate(id, payments[id], row)

\* DELETE FROM payments WHERE id = id (also by ON DELETE CASCADE from tenants)
PaymentDelete(id) ==
  /\ id \in DOMAIN payments
  /\ PaymentStatement("DELETE", payments[id], NoPayment, Without(payments, id))
  /\ toggle' = NoToggle

\* A statement on expenses or utilities_expenses: no trigger is defined on them.
OtherStatement(name) ==
  /\ now' = now + 1
  /\ lastOp' = [NoOp EXCEPT !.op = name]
  /\ toggle' = NoToggle
  /\ UNCHANGED <<payments, tax_records, cachedPayments, cachedExpenses,
                 taxRecords, selectedYear, tzWest>>
  /\ UNCHANGED <<authvars, txns, svcvars>>

\* expenseService.create
ExpenseCreate(row) ==
  /\ DOMAIN expenses # ExpenseIds
  /\ expenses' = expenses @@ ((CHOOSE i \in ExpenseIds \ DOMAIN expenses : TRUE) :> row)
  /\ UNCHANGED utilities_expenses
  /\ OtherStatement("expense")

\* expenseService.update
ExpenseUpdate(id, row) ==
  /\ id \in DOMAIN expenses
  /\ expenses' = [expenses EXCEPT ![id] = row]
  /\ UNCHANGED utilities_expenses
  /\ OtherStatement("expense")

\* expenseService.remove
ExpenseRemove(id) ==
  /\ id \in DOMAIN expenses
  /\ expenses' = Without(expenses, id)
  /\ UNCHANGED utilities_expenses
  /\ OtherStatement("expense")

\* INSERT INTO utilities_expenses
UtilitiesInsert(row) ==
  /\ DOMAIN utilities_expenses # UtilityIds
  /\ utilities_expenses' =
       utilities_expenses @@ ((CHOOSE i \in UtilityIds \ DOMAIN utilities_expenses : TRUE) :> row)
  /\ UNCHANGED expenses
  /\ OtherStatement("utility")

\* The page mounts: preloadFinancialSnapshots fills the caches and
\* fetchTaxRecords lists the summaries of the current year.
PreloadFinancialSnapshots ==
  /\ cachedPayments' = payments
  /\ cachedExpenses' = expenses
  /\ selectedYear' = CurrentYear
  /\ taxRecords' = taxServiceList(tax_records, CurrentYear)
  /\ UNCHANGED <<payments, expenses, utilities_expenses, tax_records, now, lastOp,
                 tzWest, toggle>>
  /\ UNCHANGED <<authvars, txns, svcvars>>

\* The year Select of the page: setSelectedYear, then the effect on
\* selectedYear runs fetchTaxRecords.
SelectYear(year) ==
  /\ year # selectedYear
  /\ selectedYear' = year
  /\ taxRecords' = taxServiceList(tax_records, year)
  /\ UNCHANGED <<payments, expenses, utilities_expenses, tax_records, now, lastOp,
                 cachedPayments, cachedExpenses, tzWest, toggle>>
  /\ UNCHANGED <<authvars, txns, svcvars>>

\* handleSubmit of the 'Calculate Monthly Tax' / 'Edit Tax Record' dialog.
\* editing = 0 stands for editingRecord = null; otherwise it is the id of the
\* listed record that openEditDialog chose. month, year and rateText are
\* formData at submission.
HandleSubmit(editing, month, year, rateText) ==
  LET refetch == DOMAIN cachedPayments = {} \/ DOMAIN cachedExpenses = {}
      pays    == IF refetch THEN payments ELSE cachedPayments
      exps    == IF refetch THEN expenses ELSE cachedExpenses
  IN  /\ editing = 0 \/ editing \in DOMAIN tax_records
      /\ \E calculatedData \in
              {calculateMonthlyTaxRecord(month, year, rateText, pays, exps, tzWest)} :
           \E r \in {IF editing # 0
                       THEN taxServiceUpdate(tax_records, editing, calculatedData, now + 1)
                       ELSE taxServiceCreate(tax_records, calculatedData, now + 1)} :
             /\ tax_records' = r.tax
             /\ taxRecords' = IF r.ok THEN taxServiceList(r.tax, selectedYear)
                                      ELSE taxRecords
             /\ lastOp' = [NoOp EXCEPT !.op = IF editing # 0 THEN "edit" ELSE "create",
                                       !.ok = r.ok, !.month = month, !.year = year,
                                       !.existed = TaxRowsOf(tax_records, month, year) # {},
                                       !.calc = calculatedData,
                                       !.formRate = rateText]
      /\ now' = now + 1
      /\ cachedPayments' = pays
      /\ cachedExpenses' = exps
      /\ toggle' = NoToggle
      /\ UNCHANGED <<payments, expenses, utilities_expenses, selectedYear, tzWest>>
      /\ UNCHANGED <<authvars, txns, svcvars>>

\* ------------------------------------- concurrent payment transactions

\* Database sessions that run a payment statement each, under READ COMMITTED
\* (the default): a statement sees what was committed when it starts and
\* its own transaction's changes.
Sessions == {1, 2}

NoTxn == [pc |-> "idle", op |-> "", id |-> 0, OLDROW |-> NoPayment,
          NEWROW |-> NoPayment, view |-> <<>>]

InFlight == {t \in Sessions : txns[t].pc # "idle"}

\* The table with the transaction's own row change applied.
WithChange(pays, x) ==
  IF x.op = "INSERT" THEN pays @@ (x.id :> x.NEWROW)
  ELSE [pays EXCEPT ![x.id] = x.NEWROW]

\* Session t inserts a payment: the row is written but not committed.
TxInsert(t, row) ==
  LET free == (PaymentIds \ DOMAIN payments) \ {txns[u].id : u \in InFlight}
  IN  /\ txns[t].pc = "idle"
      /\ free # {}
      /\ txns' = [txns EXCEPT ![t] =
                    [pc |-> "changed", op |-> "INSERT",
                     id |-> CHOOSE i \in free : \A j \in free : i <= j,
                     OLDROW |-> NoPayment, NEWROW |-> row, view |-> <<>>]]
      /\ UNCHANGED <<payments, expenses, utilities_expenses, tax_records, now, lastOp,
                     cachedPayments, cachedExpenses, taxRecords, selectedYear, tzWest,
                     toggle, authvars, svcvars>>

\* Session t changes the status of payment id: the row is locked and
\* written but not committed (another session's update of it would wait).
TxUpdateStatus(t, id, status) ==
  /\ txns[t].pc = "idle"
  /\ id \in DOMAIN payments
  /\ \A u \in InFlight : txns[u].id # id
  /\ payments[id].status # status
  /\ txns' = [txns EXCEPT ![t] =
                [pc |-> "changed", op |-> "UPDATE", id |-> id,
                 OLDROW |-> payments[id],
                 NEWROW |-> [payments[id] EXCEPT !.status = status], view |-> <<>>]]
  /\ UNCHANGED <<payments, expenses, utilities_expenses, tax_records, now, lastOp,
                 cachedPayments, cachedExpenses, taxRecords, selectedYear, tzWest,
                 toggle, authvars, svcvars>>

\* The trigger function's SELECTs in session t: they read the committed
\* payments and the session's own change.
TxRead(t) ==
  /\ txns[t].pc = "changed"
  /\ txns' = [txns EXCEPT ![t].pc = "read",
                          ![t].view = WithChange(payments, txns[t])]
  /\ UNCHANGED <<payments, expenses, utilities_expenses, tax_records, now, lastOp,
                 cachedPayments, cachedExpenses, taxRecords, selectedYear, tzWest,
                 toggle, authvars, svcvars>>

\* The trigger function's INSERT ... ON CONFLICT DO UPDATE in session t and
\* the commit: the upsert waits for a concurrent writer of the same
\* (month, year) to commit and then overwrites its row with the values
\* computed from what TxRead saw.
TxCommit(t) ==
  /\ txns[t].pc = "read"
  /\ \E r \in {update_tax_records_on_payment_change(txns[t].op, txns[t].OLDROW,
                   txns[t].NEWROW, txns[t].view, utilities_expenses, tax_records,
                   now + 1)} :
       /\ payments' = IF r.raised THEN payments ELSE WithChange(payments, txns[t])
       /\ tax_records' = IF r.raised THEN tax_records ELSE r.tax
       /\ lastOp' = PaymentOp(txns[t].op, txns[t].OLDROW, txns[t].NEWROW, r, tax_records)
  /\ now' = now + 1
  /\ toggle' = NoToggle
  /\ txns' = [txns EXCEPT ![t] = NoTxn]
  /\ UNCHANGED <<expenses, utilities_expenses, cachedPayments, cachedExpenses,
                 taxRecords, selectedYear, tzWest, authvars, svcvars>>

\* ------------------------------------------------ notification service

\* Browser clients of an admin that loaded App.tsx: each runs
\* initializeNotificationChecking. (A tenant's client runs it too, but the
\* policies let a tenant neither update payments nor insert notifications.)
Clients == {1, 2}

\* The dates new Date() takes, as UTC dates of January 2025.
Jan10 == [y |-> 2025, m |-> 1, d |-> 10]
Jan16 == [y |-> 2025, m |-> 1, d |-> 16]
Days  == <<Jan10, Jan16>>

\* Dates as day counts, for comparison and addDays within one month.
DayNumber(date) == (date.y * 12 + date.m) * 31 + date.d

NoCheck == [pc |-> "idle", kind |-> "", list |-> <<>>, cur |-> 0,
            existing |-> FALSE, runs |-> 0]

\* public.tenants.user_id of a payment's tenant (0: no tenant row or no user)
TenantUser(row) == IF row.tenant_id \in {2, 3} THEN row.tenant_id ELSE 0

\* checkPaymentDeadlines: the notification type by days until due. dueDate
\* is midnight UTC of due_date, the limits are now plus 1, 3 and 7 days.
DeadlineType(due, day) ==
  IF DayNumber(due) <= DayNumber(day) + 1 THEN "payment_due_tomorrow"
  ELSE IF DayNumber(due) <= DayNumber(day) + 3 THEN "payment_due_3_days"
  ELSE IF DayNumber(due) <= DayNumber(day) + 7 THEN "payment_due_7_days"
  ELSE ""

\* The rows the first select of a check returns, with the type it will send.
CheckList(kind, pays, day) ==
  LET ids == IF kind = "deadlines"
               THEN {i \in DOMAIN pays :
                       /\ pays[i].status = "unpaid"
                       /\ DayNumber(pays[i].due_date) >= DayNumber(day)
                       /\ DayNumber(pays[i].due_date) <= DayNumber(day) + 7}
               ELSE {i \in DOMAIN pays :
                       /\ pays[i].status = "unpaid"
                       /\ DayNumber(pays[i].due_date) < DayNumber(day)}
  IN  [i \in {j \in ids : TenantUser(pays[j]) # 0} |->
         [row |-> pays[i],
          type |-> IF kind = "deadlines" THEN DeadlineType(pays[i].due_date, day)
                   ELSE "payment_overdue"]]

\* .eq('user_id', ..).eq('type', ..).ilike('message', `%${month}%`).single():
\* data is a row only when exactly one row matches.
existingNotification(notes, user_id, type, month) ==
  Cardinality({k \in DOMAIN notes :
                 /\ notes[k].user_id = user_id
                 /\ notes[k].type = type
                 /\ includes(toLowerCase(notes[k].month), toLowerCase(month))}) = 1

\* The payment the loop of client c is at.
Current(c) == checks[c].list[checks[c].cur]

\* The next payment of the loop, or the next check, or the end of the run.
Advance(x) ==
  LET rest == {i \in DOMAIN x.list : i > x.cur}
  IN  IF rest # {}
        THEN [x EXCEPT !.cur = CHOOSE i \in rest : \A j \in rest : i <= j,
                       !.pc = IF x.kind = "overdue" THEN "update" ELSE "lookup"]
      ELSE IF x.kind = "deadlines"
        THEN [x EXCEPT !.pc = "select", !.kind = "overdue", !.list = <<>>, !.cur = 0]
      ELSE [x EXCEPT !.pc = "idle", !.kind = "", !.list = <<>>, !.cur = 0]

\* initializeNotificationChecking and each tick of its setInterval: client c
\* starts checkPaymentDeadlines; checkOverduePayments follows it.
CheckStart(c) ==
  /\ checks[c].pc = "idle"
  /\ checks[c].runs < MaxRuns
  /\ checks' = [checks EXCEPT ![c].pc = "select", ![c].kind = "deadlines",
                              ![c].runs = @ + 1]
  /\ UNCHANGED <<notifications, today, taxvars_db, authvars, txns, utilvars>>

\* The select on payments that opens a check.
CheckSelect(c) ==
  /\ checks[c].pc = "select"
  /\ checks' = [checks EXCEPT ![c] =
                  Advance([checks[c] EXCEPT
                             !.list = CheckList(checks[c].kind, payments, today),
                             !.cur = 0])]
  /\ UNCHANGED <<notifications, today, taxvars_db, authvars, txns, utilvars>>

\* checkOverduePayments: update({ status: 'overdue' }).eq('id', payment.id),
\* with the trigger on payments; an error of the statement is not looked at.
CheckUpdate(c) ==
  /\ checks[c].pc = "update"
  /\ LET id == checks[c].cur
     IN  IF id \notin DOMAIN payments
           THEN UNCHANGED <<payments, tax_records, now, lastOp>>
           ELSE \E NEWROW \in {[payments[id] EXCEPT !.status = "overdue"]} :
                \E r \in {update_tax_records_on_payment_change("UPDATE", payments[id],
                              NEWROW, [payments EXCEPT ![id] = NEWROW],
                              utilities_expenses, tax_records, now + 1)} :
                  /\ payments' = IF r.raised THEN payments
                                              ELSE [payments EXCEPT ![id] = NEWROW]
                  /\ tax_records' = IF r.raised THEN tax_records ELSE r.tax
                  /\ now' = now + 1
                  /\ lastOp' = PaymentOp("UPDATE", payments[id], NEWROW, r, tax_records)
  /\ toggle' = NoToggle
  /\ checks' = [checks EXCEPT ![c].pc = "lookup"]
  /\ UNCHANGED <<notifications, today, expenses, utilities_expenses, cachedPayments,
                 cachedExpenses, taxRecords, selectedYear, tzWest, authvars, txns,
                 utilvars>>

\* 'Check if we already sent this type of notification for this payment'
CheckLookup(c) ==
  /\ checks[c].pc = "lookup"
  /\ checks' = [checks EXCEPT ![c].pc = "insert",
                              ![c].existing =
                                existingNotification(notifications,
                                  TenantUser(Current(c).row), Current(c).type,
                                  Current(c).row.month)]
  /\ UNCHANGED <<notifications, today, taxvars_db, authvars, txns, utilvars>>

\* if (!existingNotification) insert into notifications; then the next payment.
CheckInsert(c) ==
  /\ checks[c].pc = "insert"
  /\ notifications' =
       IF checks[c].existing \/ Current(c).type = "" THEN notifications
       ELSE Append(notifications,
                   [user_id |-> TenantUser(Current(c).row), type |-> Current(c).type,
                    month |-> Current(c).row.month, amount |-> Current(c).row.amount])
  /\ checks' = [checks EXCEPT ![c] = Advance([checks[c] EXCEPT !.existing = FALSE])]
  /\ UNCHANGED <<today, taxvars_db, authvars, txns, utilvars>>

\* Time passes to the next of the dates.
NextDay ==
  /\ \E k \in 1..(Len(Days) - 1) : today = Days[k] /\ today' = Days[k + 1]
  /\ UNCHANGED <<notifications, checks, taxvars_db, authvars, txns, utilvars>>

\* TenantDashboard getOverduePayments over the tenant's payments: new
\* Date(due_date), midnight UTC, is before new Date() from due_date's day on.
getOverduePayments(pays, day) ==
  {i \in DOMAIN pays : pays[i].status = "unpaid" /\ pays[i].due_date # NullDate
                         /\ DayNumber(pays[i].due_date) <= DayNumber(day)}

\* TenantDashboard getTotalBalance
getTotalBalance(pays) ==
  LET S == {i \in DOMAIN pays : pays[i].status = "unpaid"}
  IN  SumOver([i \in S |-> pays[i].amount], S)

\* AdminPayments getOverviewStats().overdueCount
overdueCount(pays, day) ==
  Cardinality({i \in DOMAIN pays : pays[i].status = "unpaid"
                                     /\ DayNumber(pays[i].due_date) <= DayNumber(day)})

\* paymentService.listByTenant: the payments the tenant dashboard loads.
PaymentsOfTenant(pays, t) ==
  [i \in {j \in DOMAIN pays : pays[j].tenant_id = t} |-> pays[i]]

\* ------------------------------------------------------- parallelLimit

\* Everything but the variables of parallelLimit.
notpl == <<taxvars_db, authvars, txns, notifvars, cbvars, rlvars>>

\* parallelLimit(promiseFns, limit) is called with n functions.
ParallelLimitCall(n, lim) ==
  /\ plPc = "idle"
  /\ plFns' = n /\ plLimit' = lim /\ plIndex' = 0
  /\ executing' = <<>> /\ started' = {} /\ settled' = {}
  /\ plPc' = "loop"
  /\ UNCHANGED notpl

\* One pass of the for loop up to its await: the promise of promiseFns[i]
\* is created (the function is called in the microtask that follows) and
\* pushed; below the limit the loop goes on, otherwise it awaits the race.
ParallelLimitIterate ==
  /\ plPc = "loop" /\ plIndex < plFns
  /\ started' = started \cup {plIndex}
  /\ executing' = Append(executing, plIndex)
  /\ IF Len(executing') >= plLimit
       THEN plPc' = "race" /\ plIndex' = plIndex
       ELSE plPc' = "loop" /\ plIndex' = plIndex + 1
  /\ UNCHANGED <<plFns, plLimit, settled, notpl>>

\* A supplied function that was called settles (fulfils).
ParallelLimitSettle(j) ==
  /\ j \in started \ settled
  /\ settled' = settled \cup {j}
  /\ UNCHANGED <<plFns, plLimit, plIndex, plPc, executing, started, notpl>>

\* await Promise.race(executing) resumes once one of executing has settled;
\* executing.splice(executing.findIndex((p) => p === promise), 1) then
\* removes the promise created in this pass.
ParallelLimitRace ==
  /\ plPc = "race"
  /\ \E k \in DOMAIN executing : executing[k] \in settled
  /\ executing' = SelectSeq(executing, LAMBDA p : p # plIndex)
  /\ plIndex' = plIndex + 1
  /\ plPc' = "loop"
  /\ UNCHANGED <<plFns, plLimit, started, settled, notpl>>

\* await Promise.all(executing); return results
ParallelLimitReturn ==
  /\ plPc = "loop" /\ plIndex = plFns
  /\ \A k \in DOMAIN executing : executing[k] \in settled
  /\ plPc' = "idle"
  /\ UNCHANGED <<plFns, plLimit, plIndex, executing, started, settled, notpl>>

\* ------------------------------------------------------ CircuitBreaker

\* The arguments of new CircuitBreaker(fn, failureThreshold, resetTimeoutMs),
\* the timeout in units of the clock.
failureThreshold == 2
resetTimeoutMs   == 2

\* Everything but the variables of the circuit breaker.
notcb == <<taxvars_db, authvars, txns, notifvars, plvars, rlvars>>

NoEvent == [n |-> 0, kind |-> "none", trial |-> FALSE]

\* lastFailureTime && Date.now() - lastFailureTime > resetTimeoutMs
Elapsed == lastFailureTime # 0 /\ clock - lastFailureTime > resetTimeoutMs

\* Date.now() advances.
Tick ==
  /\ clock < MaxClock
  /\ clock' = clock + 1
  /\ UNCHANGED <<cbState, failureCount, lastFailureTime, calls, cbEvent, notcb>>

\* execute(...args) up to its await: OPEN rejects unless the timeout has
\* elapsed, in which case the breaker goes HALF_OPEN; otherwise fn is called.
Execute ==
  /\ cbEvent.n < 2 * MaxCalls
  /\ IF cbState = "OPEN" /\ ~Elapsed
       THEN /\ cbEvent' = [n |-> cbEvent.n + 1, kind |-> "rejected", trial |-> FALSE]
            /\ UNCHANGED <<cbState, failureCount, calls>>
       ELSE /\ cbState' = IF cbState = "OPEN" THEN "HALF_OPEN" ELSE cbState
            /\ failureCount' = IF cbState = "OPEN" THEN 0 ELSE failureCount
            /\ calls' = calls \cup {[id |-> cbEvent.n + 1, trial |-> cbState = "OPEN"]}
            /\ cbEvent' = [n |-> cbEvent.n + 1, kind |-> "invoked",
                           trial |-> cbState = "OPEN"]
  /\ UNCHANGED <<lastFailureTime, clock, notcb>>

\* this.fn(...args) fulfils: onSuccess()
Succeed(call) ==
  /\ call \in calls
  /\ calls' = calls \ {call}
  /\ failureCount' = 0
  /\ cbState' = "CLOSED"
  /\ cbEvent' = [n |-> cbEvent.n + 1, kind |-> "success", trial |-> call.trial]
  /\ UNCHANGED <<lastFailureTime, clock, notcb>>

\* this.fn(...args) rejects: onFailure()
Fail(call) ==
  /\ call \in calls
  /\ calls' = calls \ {call}
  /\ failureCount' = failureCount + 1
  /\ lastFailureTime' = clock
  /\ cbState' = IF failureCount + 1 >= failureThreshold THEN "OPEN" ELSE cbState
  /\ cbEvent' = [n |-> cbEvent.n + 1, kind |-> "failure", trial |-> call.trial]
  /\ UNCHANGED <<clock, notcb>>

\* ---------------------------------------------------- LoginRateLimiter

\* The arguments of new LoginRateLimiter(store, maxAttempts, windowMin)
maxAttempts == 2
windowMin   == 15

\* this.windowSizeMs = windowMin * 60 * 1000
windowSizeMs == windowMin * 60 * 1000

\* DistributedRateLimiter.isAllowed: const ttl = Math.ceil(windowSize / 1000)
ttl == (windowSizeMs + 999) \div 1000

\* InMemoryStore.incr: the lifetime of an entry it creates, in milliseconds
IncrLifetime == 3600000

\* Everything but the variables of the rate limiter.
notrl == <<taxvars_db, authvars, txns, notifvars, plvars, cbvars>>

NoItem   == [present |-> FALSE, value |-> 0, expiresAt |-> 0]
NoWindow == [start |-> 0, allowed |-> 0]

\* InMemoryStore.incr(key) at time t: the entry it leaves and the count.
incr(item, t) ==
  IF ~item.present \/ (item.expiresAt # 0 /\ item.expiresAt < t)
    THEN [item |-> [present |-> TRUE, value |-> 1, expiresAt |-> t + IncrLifetime],
          count |-> 1]
    ELSE [item |-> [item EXCEPT !.value = item.value + 1], count |-> item.value + 1]

\* InMemoryStore.set(key, value, ttl) at time t: expiresAt = Date.now() + ttl
set(value, lifetime, t) == [present |-> TRUE, value |-> value, expiresAt |-> t + lifetime]

\* The amounts of time that pass between calls, in milliseconds.
Advances == {1, 1000, windowSizeMs}

RlAdvance(d) ==
  /\ attempts.advances < MaxAdvances
  /\ rlClock' = rlClock + d
  /\ attempts' = [attempts EXCEPT !.advances = @ + 1]
  /\ UNCHANGED <<store, pending, window, notrl>>

\* isAllowed(identifier) up to the end of its first await:
\* const count = await this.store.incr(key)
IsAllowedIncr ==
  /\ attempts.calls < MaxAttempts
  /\ \E r \in {incr(store, rlClock)} :
       /\ store' = r.item
       /\ pending' = pending \cup {[seq |-> attempts.calls + 1, count |-> r.count]}
  /\ attempts' = [attempts EXCEPT !.calls = @ + 1]
  /\ UNCHANGED <<rlClock, window, notrl>>

\* The rest of isAllowed: if (count === 1) await this.store.set(key, count,
\* ttl); return count <= this.maxRequests. window counts the calls that
\* returned true within windowMin minutes of the first of them.
IsAllowedReturn(call) ==
  /\ call \in pending
  /\ pending' = pending \ {call}
  /\ store' = IF call.count = 1 THEN set(call.count, ttl, rlClock) ELSE store
  /\ LET w == IF window.start = 0 \/ rlClock >= window.start + windowSizeMs
                 THEN [start |-> rlClock, allowed |-> 0] ELSE window
     IN  window' = IF call.count <= maxAttempts
                     THEN [w EXCEPT !.allowed = @ + 1] ELSE w
  /\ UNCHANGED <<rlClock, attempts, notrl>>

\* reset(identifier): this.store.del(key)
RlReset ==
  /\ store.present
  /\ store' = NoItem
  /\ window' = NoWindow
  /\ UNCHANGED <<rlClock, pending, attempts, notrl>>

\* ------------------------------------------------- sign-in and routes

\* The rows of public.profiles: user 1 is the admin, the others are tenants.
Users == {1, 2, 3}
RoleOf(u) == IF u = 1 THEN "admin" ELSE "tenant"

NoProfile == [id |-> 0, role |-> "none"]

\* fetchProfile(userId): the mapped row, or null when the select fails or
\* returns no row.
fetchProfile(userId, found) ==
  IF found THEN [id |-> userId, role |-> RoleOf(userId)] ELSE NoProfile

\* The allowedRoles prop of a guarded route; given = FALSE is undefined.
NoRoles == [given |-> FALSE, roles |-> {}]
AllowedRolesProps ==
  {NoRoles, [given |-> TRUE, roles |-> {"admin"}], [given |-> TRUE, roles |-> {"tenant"}]}

Paths == {"/admin/payments", "/admin/tax", "/tenant/dashboard"}

\* What ProtectedRoute renders.
ProtectedRoute(allowedRoles, u, p, l) ==
  IF l THEN "spinner"
  ELSE IF u = 0 THEN "/login"
  ELSE IF allowedRoles.given /\ p # NoProfile /\ p.role \notin allowedRoles.roles
    THEN "/unauthorized"
  ELSE "outlet"

NotVisited ==
  [path |-> "", allowedRoles |-> NoRoles, user |-> 0, role |-> "none",
   loading |-> TRUE, rendered |-> "none"]

NotSelected == [table |-> "", uid |-> 0, rows |-> {}, all |-> {}]

\* loadSession on mount: the stored session's user, if any, and its profile.
LoadSession(u, found) ==
  /\ loading
  /\ user' = u
  /\ profile' = IF u # 0 THEN fetchProfile(u, found) ELSE NoProfile
  /\ loading' = FALSE
  /\ UNCHANGED <<visited, selected, taxvars>>

\* signIn with valid credentials.
SignIn(u, found) ==
  /\ ~loading /\ user = 0
  /\ user' = u
  /\ profile' = fetchProfile(u, found)
  /\ loading' = FALSE
  /\ UNCHANGED <<visited, selected, taxvars>>

\* signOut
SignOut ==
  /\ ~loading /\ user # 0
  /\ user' = 0
  /\ profile' = NoProfile
  /\ loading' = FALSE
  /\ UNCHANGED <<visited, selected, taxvars>>

\* A guarded route is opened: its ProtectedRoute element renders.
OpenRoute(path, allowedRoles) ==
  /\ visited' = [path |-> path, allowedRoles |-> allowedRoles, user |-> user,
                 role |-> profile.role, loading |-> loading,
                 rendered |-> ProtectedRoute(allowedRoles, user, profile, loading)]
  /\ UNCHANGED <<user, profile, loading, selected, taxvars>>

Init ==
  /\ payments = <<>>
  /\ expenses = <<>>
  /\ utilities_expenses = <<>>
  /\ tax_records = <<>>
  /\ now = 0
  /\ lastOp = NoOp
  /\ cachedPayments = <<>>
  /\ cachedExpenses = <<>>
  /\ taxRecords = <<>>
  /\ selectedYear = CurrentYear
  /\ tzWest \in BOOLEAN
  /\ toggle = NoToggle
  /\ user = 0
  /\ profile = NoProfile
  /\ loading = TRUE
  /\ visited = NotVisited
  /\ selected = NotSelected
  /\ txns = [t \in Sessions |-> NoTxn]
  /\ notifications = <<>>
  /\ today = Days[1]
  /\ checks = [c \in Clients |-> NoCheck]
  /\ plFns = 0
  /\ plLimit = 0
  /\ plIndex = 0
  /\ plPc = "idle"
  /\ executing = <<>>
  /\ started = {}
  /\ settled = {}
  /\ cbState = "CLOSED"
  /\ failureCount = 0
  /\ lastFailureTime = 0
  /\ clock = 1
  /\ calls = {}
  /\ cbEvent = NoEvent
  /\ store = NoItem
  /\ rlClock = 1
  /\ pending = {}
  /\ attempts = [calls |-> 0, advances |-> 0]
  /\ window = NoWindow

InitDb == Init /\ ~tzWest

\* The statement bound of each specification is a conjunct of its steps.
Next ==
  \/ \E row \in PaymentRows : now < MaxNow /\ PaymentInsert(row)
  \/ \E id \in PaymentIds, row \in PaymentRows : now < MaxNow /\ PaymentUpdate(id, row)
  \/ \E id \in PaymentIds : now < MaxNow /\ PaymentDelete(id)
  \/ \E row \in LedgerExpenseRows : now < MaxNow /\ ExpenseCreate(row)
  \/ \E id \in ExpenseIds, row \in LedgerExpenseRows :
        now < MaxNow /\ ExpenseUpdate(id, row)
  \/ \E id \in ExpenseIds : now < MaxNow /\ ExpenseRemove(id)
  \/ \E row \in FilledUtilityRows : now < MaxNow /\ UtilitiesInsert(row)
  \/ now < MaxNow /\ PreloadFinancialSnapshots
  \/ \E e \in {0} \cup DOMAIN tax_records, m \in FormMonths, y \in FormYears,
        rt \in FormRates : now < MaxNow /\ HandleSubmit(e, m, y, rt)

\* The whole program: the database with its trigger and the admin page.
Spec == Init /\ [][Next]_vars

NextTrigger ==
  \/ \E row \in TriggerRows : now < MaxTriggerNow /\ PaymentInsert(row)
  \/ \E id \in PaymentIds, row \in TriggerRows :
        now < MaxTriggerNow /\ PaymentUpdate(id, row)
  \/ \E id \in PaymentIds : now < MaxTriggerNow /\ PaymentDelete(id)
  \/ \E row \in UtilityRows : now < MaxTriggerNow /\ UtilitiesInsert(row)

\* The payments table and its trigger, on free-text labels of every shape.
SpecTrigger == InitDb /\ [][NextTrigger]_vars

NextToggle ==
  \/ \E row \in ToggleRows : now < MaxToggleNow /\ PaymentInsert(row)
  \/ \E id \in PaymentIds, row \in ToggleRows : now < MaxToggleNow /\ PaymentUpdate(id, row)
  \/ \E id \in PaymentIds : now < MaxToggleNow /\ PaymentDelete(id)

\* Payments of one period that are edited, marked paid and marked unpaid.
SpecToggle == InitDb /\ [][NextToggle]_vars

NextCalc ==
  \/ \E row \in CalcRows : now < MaxCalcNow /\ PaymentInsert(row)
  \/ \E row \in ExpenseRows : now < MaxCalcNow /\ ExpenseCreate(row)
  \/ \E e \in {0} \cup DOMAIN tax_records, m \in FormMonths, y \in FormYears,
        rt \in CalcRates : now < MaxCalcNow /\ HandleSubmit(e, m, y, rt)
  \/ \E y \in FormYears : now < MaxCalcNow /\ SelectYear(y)

\* The tax dialog submitted over payments of every label shape, at any rate.
SpecCalc == InitDb /\ [][NextCalc]_vars

NextCache ==
  \/ \E row \in PaymentRows : now < MaxCacheNow /\ PaymentInsert(row)
  \/ \E row \in ExpenseRows : now < MaxCacheNow /\ ExpenseCreate(row)
  \/ PreloadFinancialSnapshots
  \/ \E e \in {0} \cup DOMAIN tax_records, y \in FormYears :
        now < MaxCacheNow /\ HandleSubmit(e, January, y, <<"2", "5">>)

\* The tax page kept open while payments and expenses are recorded.
SpecCache == InitDb /\ [][NextCache]_vars

\* formData.tax_rate when handleSubmit runs: the default, a typed rate, and
\* the empty text a cleared number input holds (the handler has no check of
\* its own; only the browser's validation of the required field stands
\* between a cleared field and handleSubmit).
RateTexts == {<<"2", "5">>, <<"1", "0">>, <<>>}

NextRate ==
  \/ \E row \in PaymentRows : now < MaxRateNow /\ PaymentInsert(row)
  \/ \E id \in PaymentIds, row \in PaymentRows : now < MaxRateNow /\ PaymentUpdate(id, row)
  \/ \E e \in {0} \cup DOMAIN tax_records, y \in FormYears, rt \in RateTexts :
        now < MaxRateNow /\ HandleSubmit(e, January, y, rt)

\* Summaries calculated at a rate from the form and recomputed by the trigger.
SpecRate == InitDb /\ [][NextRate]_vars

\* ------------------------------------------------- row level security

\* public.tenants: the tenant row of a tenant user (id -> user_id).
tenants == [t \in {2, 3} |-> [user_id |-> t]]

\* public.is_admin() / public.is_tenant() for auth.uid() = uid
is_admin(uid)  == uid \in Users /\ RoleOf(uid) = "admin"
is_tenant(uid) == uid \in Users /\ RoleOf(uid) = "tenant"

RlsTables == {"payments", "expenses", "tax_records"}

\* The permissive policies that apply to a select of a row, or'ed.
PolicySelect(table, row, uid) ==
  CASE table = "payments" ->
         \/ is_admin(uid)
         \/ \E t \in DOMAIN tenants : t = row.tenant_id /\ tenants[t].user_id = uid
    [] table = "expenses" -> is_admin(uid)
    [] table = "tax_records" -> is_admin(uid) \/ is_tenant(uid)

RowsIn(table) ==
  CASE table = "payments" -> {payments[i] : i \in DOMAIN payments}
    [] table = "expenses" -> {expenses[i] : i \in DOMAIN expenses}
    [] table = "tax_records" -> {tax_records[i] : i \in DOMAIN tax_records}

\* select * from table, issued with the token of user uid.
SelectAs(uid, table) ==
  /\ selected' = [table |-> table, uid |-> uid,
                  rows |-> {row \in RowsIn(table) : PolicySelect(table, row, uid)},
                  all |-> RowsIn(table)]
  /\ UNCHANGED <<user, profile, loading, visited, taxvars>>

\* The payments of two tenants (user 2 and user 3).
RlsRows ==
  [amount : {120000}, month : {LabelJan2025}, status : {"unpaid", "paid"},
   due_date : {Jan15}, paid_date : {NullDate}, tenant_id : DOMAIN tenants]

NextRls ==
  \/ \E row \in RlsRows : now < MaxRlsNow /\ PaymentInsert(row)
  \/ \E row \in ExpenseRows : now < MaxRlsNow /\ ExpenseCreate(row)
  \/ \E uid \in Users, table \in RlsTables : SelectAs(uid, table)

\* Rows written by the admin and selects issued by every user.
SpecRls == InitDb /\ [][NextRls]_vars

\* The inputs of SpecConc: payments of one period.
ConcRows == PaymentRowsOf({LabelJan2025}, {120000, 45050}, {"unpaid", "paid"})

\* A session starts a statement only if every statement in flight can still
\* commit within the bound.
ConcRoom == now + Cardinality(InFlight) < MaxConcNow

NextConc ==
  \/ \E t \in Sessions, row \in ConcRows : ConcRoom /\ TxInsert(t, row)
  \/ \E t \in Sessions, id \in PaymentIds, st \in {"unpaid", "paid"} :
        ConcRoom /\ TxUpdateStatus(t, id, st)
  \/ \E t \in Sessions : TxRead(t)
  \/ \E t \in Sessions : TxCommit(t)

\* Payment statements of two sessions, interleaved.
SpecConc == InitDb /\ [][NextConc]_vars

NextConcForm ==
  \/ \E t \in Sessions, row \in ConcRows : ConcRoom /\ TxInsert(t, row)
  \/ \E t \in Sessions : TxRead(t)
  \/ \E t \in Sessions : TxCommit(t)
  \/ \E m \in FormMonths, y \in FormYears, rt \in FormRates :
        ConcRoom /\ HandleSubmit(0, m, y, rt)

\* Payment statements of two sessions and calculations submitted by admins,
\* interleaved.
SpecConcForm == InitDb /\ [][NextConcForm]_vars

\* The inputs of SpecNotif: unpaid rent of two tenants, due on 15 January.
NotifRows ==
  [amount : {120000}, month : {LabelJan2025}, status : {"unpaid"},
   due_date : {Jan15}, paid_date : {NullDate}, tenant_id : {2, 3}]

NextNotif ==
  \/ \E row \in NotifRows : now < MaxNotifNow /\ PaymentInsert(row)
  \/ NextDay
  \/ \E c \in Clients : CheckStart(c)
  \/ \E c \in Clients : CheckSelect(c)
  \/ \E c \in Clients : CheckUpdate(c)
  \/ \E c \in Clients : CheckLookup(c)
  \/ \E c \in Clients : CheckInsert(c)

\* The hourly notification check of two clients over the recorded payments.
SpecNotif == InitDb /\ [][NextNotif]_vars

NextParallel ==
  \/ \E n \in 0..MaxFns, lim \in 1..MaxLimit : ParallelLimitCall(n, lim)
  \/ ParallelLimitIterate
  \/ \E j \in 0..(MaxFns - 1) : ParallelLimitSettle(j)
  \/ ParallelLimitRace
  \/ ParallelLimitReturn

\* parallelLimit over functions that settle in any order.
SpecParallel == InitDb /\ [][NextParallel]_vars

NextBreaker ==
  \/ Tick
  \/ Execute
  \/ \E call \in calls : Succeed(call)
  \/ \E call \in calls : Fail(call)

\* A circuit breaker whose calls overlap, succeed and fail as time passes.
SpecBreaker == InitDb /\ [][NextBreaker]_vars

NextLimiter ==
  \/ \E d \in Advances : RlAdvance(d)
  \/ IsAllowedIncr
  \/ \E call \in pending : IsAllowedReturn(call)
  \/ RlReset

\* Login attempts of one identifier against a LoginRateLimiter on InMemoryStore.
SpecLimiter == InitDb /\ [][NextLimiter]_vars

NextAuth ==
  \/ \E u \in {0} \cup Users, found \in BOOLEAN : LoadSession(u, found)
  \/ \E u \in Users, found \in BOOLEAN : SignIn(u, found)
  \/ SignOut
  \/ \E path \in Paths, allowedRoles \in AllowedRolesProps : OpenRoute(path, allowedRoles)

\* Signing in and out and opening guarded routes.
SpecAuth == InitDb /\ [][NextAuth]_vars

\* ------------------------------------------------------------ properties

PaymentOps == {"INSERT", "UPDATE", "DELETE"}
SubmitOps  == {"create", "edit"}

\* The paid payments of a list.
PaidOf(pays) == {p \in DOMAIN pays : pays[p].status = "paid"}

AmountsOf(pays, S) == SumOver([p \in S |-> pays[p].amount], S)

\* The calendar month an expense date lies in.
DateIn(date, month, year) ==
  date # NullDate /\ MonthNames[date.m] = month /\ date.y = year

\* A label names the period (month, year): it has at least two words, the
\* first is the month name in any letter case, and the first word of four
\* digits is the year.
Words(label) == SelectSeq(string_to_array(label), LAMBDA w : Len(w) > 0)

IsYearWord(w) == Len(w) = 4 /\ \A k \in 1..4 : IsDigit(w[k])

ResolvesTo(label, month, year) ==
  LET w == Words(label)
  IN  /\ Len(w) >= 2
      /\ toLowerCase(w[1]) = toLowerCase(month)
      /\ \E k \in 1..Len(w) :
           /\ IsYearWord(w[k])
           /\ \A j \in 1..(k - 1) : ~IsYearWord(w[j])
           /\ DigitsToNat(w[k]) = year

\* C1: every stored tax summary is consistent with its sources: total_revenue
\* is the sum of the stored paid payments of its (month, year), and the
\* expense totals are the sums over the stored expenses of that period.
C1_SummaryConsistent ==
  \A i \in DOMAIN tax_records :
    LET r    == tax_records[i]
        paid == {p \in PaidOf(payments) : ILikeMonthYear(payments[p].month, r.month, r.year)}
        exps == {e \in DOMAIN expenses : DateIn(expenses[e].expense_date, r.month, r.year)}
    IN  /\ r.total_revenue = AmountsOf(payments, paid)
        /\ r.total_utilities = AmountsOf(expenses, exps)

C3_Idempotent ==
  [][(/\ lastOp.op = "create" /\ lastOp.ok
      /\ lastOp'.op = "create" /\ now' = now + 1
      /\ lastOp'.month = lastOp.month /\ lastOp'.year = lastOp.year
      /\ lastOp'.calc.tax_rate = lastOp.calc.tax_rate)
     => (/\ lastOp'.ok
         /\ \A i \in TaxRowsOf(tax_records, lastOp.month, lastOp.year) :
              i \in DOMAIN tax_records'
              /\ [tax_records'[i] EXCEPT !.updated_at = 0]
                   = [tax_records[i] EXCEPT !.updated_at = 0])]_vars

\* C4: a payment insert, update or delete is never rejected because of the
\* summary recompute it triggers.
C4_PaymentWriteSucceeds == lastOp.op \in PaymentOps => lastOp.ok

\* The event moved the payment into or out of status 'paid'.
MovesPaid(o) ==
  \/ o.op = "INSERT" /\ o.new_status = "paid"
  \/ o.op = "UPDATE" /\ ((o.old_status = "paid") # (o.new_status = "paid"))
  \/ o.op = "DELETE" /\ o.old_status = "paid"

\* The label splits on single spaces into at least two elements, the second
\* of which is an integer.
LabelHasYear(label) ==
  LET a == string_to_array(label)
  IN  Len(a) >= 2 /\ CastInteger(a[2]).ok

C6_ToggleRestores ==
  (toggle.phase = "reverted" /\ toggle.has) =>
    \A i \in TaxRowsOf(tax_records, toggle.month, toggle.year) :
      tax_records[i].total_revenue = toggle.pre

\* C7: the total_revenue computed for a period is the sum of amount over
\* exactly the paid payments whose label resolves to that month and year.
C7_RevenueOfPeriod ==
  /\ lastOp.op \in SubmitOps =>
       LET S == {p \in PaidOf(cachedPayments) :
                   ResolvesTo(cachedPayments[p].month, lastOp.month, lastOp.year)}
       IN  lastOp.calc.total_revenue = AmountsOf(cachedPayments, S)
  /\ lastOp.invoked =>
       LET S == {p \in PaidOf(payments) :
                   ResolvesTo(payments[p].month, lastOp.month, lastOp.year)}
       IN  \A i \in TaxRowsOf(tax_records, lastOp.month, lastOp.year) :
             tax_records[i].total_revenue = AmountsOf(payments, S)

\* C8: with one paid payment and one expense of the same calendar month (the
\* label is the date's month name and year), a calculation of that period
\* counts both and a calculation of any other period counts neither.
C8_SamePeriod ==
  (/\ lastOp.op \in SubmitOps
   /\ DOMAIN cachedPayments = {1} /\ DOMAIN cachedExpenses = {1}
   /\ cachedPayments[1].status = "paid"
   /\ cachedPayments[1].month =
        MonthNames[cachedExpenses[1].expense_date.m] \o <<" ">>
          \o IntToText(cachedExpenses[1].expense_date.y))
  => IF DateIn(cachedExpenses[1].expense_date, lastOp.month, lastOp.year)
       THEN /\ lastOp.calc.total_revenue = cachedPayments[1].amount
            /\ lastOp.calc.total_utilities = cachedExpenses[1].amount
       ELSE /\ lastOp.calc.total_revenue = 0
            /\ lastOp.calc.total_utilities = 0

\* C9: a reconciliation of a period (a trigger-driven recompute or a submitted
\* new calculation) succeeds and leaves exactly one row of the period, holding
\* the newly computed fields and stamped with the current time, whether or
\* not the period had a row before.
C9_Upsert ==
  (lastOp.invoked \/ lastOp.op = "create") =>
    /\ lastOp.ok
    /\ Cardinality(TaxRowsOf(tax_records, lastOp.month, lastOp.year)) = 1
    /\ \A i \in TaxRowsOf(tax_records, lastOp.month, lastOp.year) :
         /\ tax_records[i].updated_at = now
         /\ lastOp.op = "create" =>
              tax_records[i] = TaxRowOfPayload(lastOp.calc, i, now)

\* C10: in every stored tax summary total_utilities is electricity + water +
\* gas + maintenance + other_expenses.
C10_UtilitiesSum ==
  \A i \in DOMAIN tax_records :
    tax_records[i].total_utilities =
      tax_records[i].electricity + tax_records[i].water + tax_records[i].gas
        + tax_records[i].maintenance + tax_records[i].other_expenses

\* C11: in every stored tax summary net_income is total_revenue minus
\* total_utilities.
C11_NetIncome ==
  \A i \in DOMAIN tax_records :
    tax_records[i].net_income =
      tax_records[i].total_revenue - tax_records[i].total_utilities

\* A submission has just stored a summary with revenue and expenses.
C11_Witness ==
  /\ lastOp.op \in SubmitOps /\ lastOp.ok
  /\ \E i \in DOMAIN tax_records :
       /\ tax_records[i].updated_at = now
       /\ tax_records[i].total_revenue > 0
       /\ tax_records[i].total_utilities > 0

\* tax_amount is net_income * tax_rate / 100 to the cent (tax_rate is counted
\* in hundredths of a percent, money in cents).
TaxFormula(r) == r.tax_amount = RoundDiv(r.net_income * r.tax_rate, 10000)

C13_InvalidRateRejected ==
  (lastOp.op \in SubmitOps /\ lastOp.calc.tax_rate < 0) =>
    /\ ~lastOp.ok
    /\ \A i \in DOMAIN tax_records : tax_records[i].updated_at # now

\* The label names no period: no month and year resolve from it.
Malformed(label) ==
  \A m \in 1..Len(MonthNames), y \in {2024, 2025} : ~ResolvesTo(label, MonthNames[m], y)

\* C14: a calculation over payments of which one has a label that resolves
\* to no period sums exactly the paid payments that resolve to the requested
\* period.
C14_MalformedIsolated ==
  (/\ lastOp.op \in SubmitOps
   /\ \E p \in DOMAIN cachedPayments : Malformed(cachedPayments[p].month))
  => LET S == {p \in PaidOf(cachedPayments) :
                 ResolvesTo(cachedPayments[p].month, lastOp.month, lastOp.year)}
     IN  lastOp.calc.total_revenue = AmountsOf(cachedPayments, S)

\* The financial fields of a summary or of a calculation are all zero.
AllZero(r) ==
  /\ r.total_revenue = 0 /\ r.total_utilities = 0 /\ r.electricity = 0
  /\ r.water = 0 /\ r.gas = 0 /\ r.maintenance = 0 /\ r.other_expenses = 0
  /\ r.net_income = 0 /\ r.tax_amount = 0

\* C15: a calculation of a period that no payment and no expense resolves to
\* succeeds, returns all financial fields zero and stores them.
C15_ZeroRecord ==
  (/\ lastOp.op \in SubmitOps
   /\ \A p \in DOMAIN cachedPayments :
        ~ResolvesTo(cachedPayments[p].month, lastOp.month, lastOp.year)
   /\ \A e \in DOMAIN cachedExpenses :
        ~DateIn(cachedExpenses[e].expense_date, lastOp.month, lastOp.year))
  => /\ lastOp.ok
     /\ AllZero(lastOp.calc)
     /\ \E i \in TaxRowsOf(tax_records, lastOp.month, lastOp.year) :
          AllZero(tax_records[i])

\* The calendar number of a month name.
MonthIndex(month) == CHOOSE k \in 1..Len(MonthNames) : MonthNames[k] = month

\* C16: the summaries the page lists for the selected year are in reverse
\* calendar order: a later month comes before an earlier one.
C16_ListCalendarDescending ==
  \A a, b \in 1..Len(taxRecords) :
    (a < b /\ taxRecords[a].year = taxRecords[b].year) =>
      MonthIndex(taxRecords[a].month) > MonthIndex(taxRecords[b].month)

\* C17: a route opened with no user renders the redirect to /login, and a
\* route opened by a signed-in user whose profile is not loaded, or whose
\* role is not among the route's allowed roles, renders the redirect to
\* /unauthorized.
C17_RouteGuard ==
  (visited.rendered # "none" /\ ~visited.loading) =>
    /\ visited.user = 0 => visited.rendered = "/login"
    /\ (/\ visited.user # 0
        /\ visited.allowedRoles.given
        /\ visited.role \notin visited.allowedRoles.roles)
       => visited.rendered = "/unauthorized"

\* C18: a select issued by a tenant returns only that tenant's own payments
\* and no row of the landlord's finances (expenses, tax_records); a select
\* issued by an admin returns every row.
C18_TenantSeesOwnData ==
  /\ is_tenant(selected.uid) =>
       /\ selected.table \in {"expenses", "tax_records"} => selected.rows = {}
       /\ selected.table = "payments" =>
            \A row \in selected.rows : tenants[row.tenant_id].user_id = selected.uid
  /\ is_admin(selected.uid) => selected.rows = selected.all

\* C19: once the concurrent payment transactions and their recomputes have
\* all completed, every stored summary's total_revenue is the sum of the
\* stored paid payments of its period.
C19_Converges ==
  InFlight = {} =>
    \A i \in DOMAIN tax_records :
      LET paid == {p \in PaidOf(payments) :
                     ILikeMonthYear(payments[p].month, tax_records[i].month,
                                    tax_records[i].year)}
      IN  tax_records[i].total_revenue = AmountsOf(payments, paid)

\* C20: every reconciliation of a period, trigger-driven or submitted as a
\* new calculation while others are in progress, completes without error
\* and leaves exactly one row of the period.
C20_ConcurrentReconciliations ==
  ((lastOp.op \in PaymentOps /\ lastOp.invoked) \/ lastOp.op = "create") =>
    /\ lastOp.ok
    /\ Cardinality(TaxRowsOf(tax_records, lastOp.month, lastOp.year)) = 1

\* C21: a calculation submitted from the page aggregates over the payments
\* and expenses stored when it runs: its revenue and its expenses are those
\* of the stored tables, also when the page loaded its data earlier.
C21_ReadsCurrentFacts ==
  lastOp.op \in SubmitOps =>
    LET fresh == calculateMonthlyTaxRecord(lastOp.month, lastOp.year, <<"0">>,
                                           payments, expenses, tzWest)
    IN  /\ lastOp.calc.total_revenue = fresh.total_revenue
        /\ lastOp.calc.total_utilities = fresh.total_utilities

\* C22: for a payment label of at least two words, the trigger resolves the
\* period as (first word canonicalized to a month name, first four-digit
\* word): an event that moves such a payment into or out of 'paid' succeeds
\* and recomputes the row of exactly that month name and year.
C22_TriggerResolvesPeriod ==
  \A k \in DOMAIN MonthNames, y \in FormYears :
    (/\ lastOp.op \in PaymentOps
     /\ MovesPaid(lastOp)
     /\ ResolvesTo(lastOp.label, MonthNames[k], y))
    => (/\ lastOp.ok
        /\ lastOp.invoked
        /\ lastOp.month = MonthNames[k]
        /\ lastOp.year = y)

C25_TriggerResetsRate ==
  (lastOp.op \in PaymentOps /\ lastOp.invoked) =>
    /\ TaxRowsOf(tax_records, lastOp.month, lastOp.year) # {}
    /\ \A i \in TaxRowsOf(tax_records, lastOp.month, lastOp.year) :
         /\ tax_records[i].tax_rate = DefaultTaxRate
         /\ tax_records[i].tax_amount
              = RoundDiv(tax_records[i].net_income * DefaultTaxRate, 10000)

\* The trigger recomputed a row that the page had calculated at 10 percent
\* (the page still lists it so) and the stored row now has 25 percent.
C25_Witness ==
  /\ lastOp.op \in PaymentOps /\ lastOp.invoked /\ lastOp.existed
  /\ \E k \in DOMAIN taxRecords :
       /\ taxRecords[k].month = lastOp.month /\ taxRecords[k].year = lastOp.year
       /\ taxRecords[k].tax_rate = 1000
       /\ \E i \in TaxRowsOf(tax_records, lastOp.month, lastOp.year) :
            /\ tax_records[i].id = taxRecords[k].id
            /\ tax_records[i].tax_rate = DefaultTaxRate
            /\ tax_records[i].net_income > 0

\* C26: every payment that is not paid and whose due date has passed is
\* counted in the tenant dashboard's overdue payments and outstanding balance
\* and in the admin overview's overdue count.
C26_OverdueCounted ==
  LET late(pays) == {i \in DOMAIN pays :
                       /\ pays[i].status # "paid"
                       /\ DayNumber(pays[i].due_date) < DayNumber(today)}
  IN  /\ overdueCount(payments, today) >= Cardinality(late(payments))
      /\ \A t \in DOMAIN tenants :
           LET mine == PaymentsOfTenant(payments, t)
           IN  /\ late(mine) \subseteq getOverduePayments(mine, today)
               /\ getTotalBalance(mine) >= AmountsOf(mine, late(mine))

\* C27: the notifications table never holds two notifications of one type
\* for one tenant user and one payment month.
C27_OneNotificationPerMonth ==
  \A j, k \in DOMAIN notifications :
    (/\ notifications[j].user_id = notifications[k].user_id
     /\ notifications[j].type = notifications[k].type
     /\ notifications[j].month = notifications[k].month) => j = k

\* C28: parallelLimit never has more than limit of the supplied functions
\* started and not yet settled at the same time.
C28_AtMostLimitRunning ==
  plFns > 0 => Cardinality(started \ settled) <= plLimit

\* C29: while the breaker is OPEN and resetTimeoutMs has not elapsed since
\* the last failure, execute rejects without calling the wrapped function and
\* the breaker stays OPEN; the first call after the timeout runs as the
\* HALF_OPEN trial; when the trial call fails the breaker is OPEN again.
C29_BreakerProtocol ==
  [][cbEvent'.n = cbEvent.n + 1 =>
       /\ (cbState = "OPEN" /\ ~Elapsed /\ cbEvent'.kind \in {"invoked", "rejected"})
            => (cbEvent'.kind = "rejected" /\ calls' = calls)
       /\ (cbState = "OPEN" /\ ~Elapsed) => cbState' = "OPEN"
       /\ (cbState = "OPEN" /\ Elapsed /\ cbEvent'.kind \in {"invoked", "rejected"})
            => (cbEvent'.kind = "invoked" /\ cbEvent'.trial /\ cbState' = "HALF_OPEN")
       /\ (cbEvent'.kind = "failure" /\ cbEvent'.trial) => cbState' = "OPEN"]_vars

\* C30: within the window of windowMin minutes that starts at the
\* identifier's first counted attempt, isAllowed returns true for at most
\* maxAttempts calls, until the window ends or reset is called.
C30_AtMostMaxAttempts == window.allowed <= maxAttempts

====
